---- MODULE Spec2Model ----
(***************************************************************************)
(* Model of simple-mitm-proxy (src/src/index.ts): the logging middleware   *)
(* that wraps res.write / res.end of every request, the response decoder   *)
(* handleResponse, the log file naming and the proxy error hook.           *)
(*                                                                         *)
(* Bytes are integers 0..255, text is a sequence of code points, and a     *)
(* JavaScript value is a record [t, n, s, o] tagged by its type t.         *)
(***************************************************************************)
EXTENDS Integers, Sequences, FiniteSets, TLC

(* ------------------------------------------------------------------ *)
(* JavaScript values                                                   *)
(* ------------------------------------------------------------------ *)
JUndef == [t |-> "undefined", n |-> 0, s |-> <<>>, o |-> <<>>]
JNull == [t |-> "null", n |-> 0, s |-> <<>>, o |-> <<>>]
JFalse == [t |-> "bool", n |-> 0, s |-> <<>>, o |-> <<>>]
JTrue == [t |-> "bool", n |-> 1, s |-> <<>>, o |-> <<>>]
JNum(k) == [t |-> "num", n |-> k, s |-> <<>>, o |-> <<>>]
JStr(str) == [t |-> "str", n |-> 0, s |-> str, o |-> <<>>]
\* an object is the sequence of its members [k |-> name, v |-> value]
JObj(members) == [t |-> "obj", n |-> 0, s |-> <<>>, o |-> members]

\* ToBoolean of a JavaScript value, as used by ||, && and ?:
Truthy(v) ==
  CASE v.t = "undefined" -> FALSE
    [] v.t = "null" -> FALSE
    [] v.t = "bool" -> v.n = 1
    [] v.t = "num" -> v.n # 0
    [] v.t = "str" -> v.s # <<>>
    [] OTHER -> TRUE

\* a || b
JsOr(a, b) == IF Truthy(a) THEN a ELSE b

\* obj.name (undefined when the object has no such member)
RECURSIVE MemberAt(_, _, _)
MemberAt(members, name, i) ==
  IF i > Len(members) THEN JUndef
  ELSE IF members[i].k = name THEN members[i].v
  ELSE MemberAt(members, name, i + 1)

GetProp(obj, name) == IF obj.t = "obj" THEN MemberAt(obj.o, name, 1) ELSE JUndef

(* ------------------------------------------------------------------ *)
(* Text constants (code points)                                        *)
(* ------------------------------------------------------------------ *)
StrGzip == <<103, 122, 105, 112>>                  \* "gzip"
StrGzipUpper == <<71, 90, 73, 80>>                 \* "GZIP"
StrBr == <<98, 114>>                               \* "br"
StrNull == <<110, 117, 108, 108>>                  \* "null"
StrTrue == <<116, 114, 117, 101>>                  \* "true"
StrFalse == <<102, 97, 108, 115, 101>>             \* "false"
StrJsonrpc == <<106, 115, 111, 110, 114, 112, 99>> \* "jsonrpc"
StrTwoZero == <<50, 46, 48>>                       \* "2.0"
StrError == <<101, 114, 114, 111, 114>>            \* "error"
StrCode == <<99, 111, 100, 101>>                   \* "code"
StrMessage == <<109, 101, 115, 115, 97, 103, 101>> \* "message"
StrProxyError == <<80, 114, 111, 120, 121, 32, 101, 114, 114, 111, 114>> \* "Proxy error"
StrId == <<105, 100>>                              \* "id"
StrMethod == <<109, 101, 116, 104, 111, 100>>      \* "method"
StrEthCall == <<101, 116, 104, 95, 99, 97, 108, 108>> \* "eth_call"
\* "Error processing response"
StrErrorProcessing ==
  <<69, 114, 114, 111, 114, 32, 112, 114, 111, 99, 101, 115, 115, 105, 110,
    103, 32, 114, 101, 115, 112, 111, 110, 115, 101>>

(* ------------------------------------------------------------------ *)
(* Buffers and text                                                    *)
(* ------------------------------------------------------------------ *)
ReplacementChar == 65533

\* Buffer.from(string) / string written with encoding utf8
RECURSIVE Utf8Encode(_)
Utf8Encode(str) ==
  IF str = <<>> THEN <<>>
  ELSE IF Len(str) = 1
  THEN (IF str[1] < 128 THEN <<str[1]>>
        ELSE <<192 + (str[1] \div 64), 128 + (str[1] % 64)>>)
  ELSE Utf8Encode(SubSeq(str, 1, Len(str) \div 2))
       \o Utf8Encode(SubSeq(str, Len(str) \div 2 + 1, Len(str)))

\* string written with encoding latin1: one byte per character
Latin1Encode(str) == [i \in 1..Len(str) |-> str[i] % 256]

IsContinuation(b) == b >= 128 /\ b <= 191

\* buffer.toString("utf8"): lossy, every byte that is not part of a
\* well-formed sequence becomes U+FFFD
IsLead2(b) == b >= 194 /\ b <= 223

\* A lead byte is never a continuation byte, so byte i is the second byte of
\* a two-byte sequence exactly when it is a continuation byte that follows a
\* lead byte.
Utf8Decode(bytes) ==
  LET second(i) == i > 1 /\ IsLead2(bytes[i - 1]) /\ IsContinuation(bytes[i])
      starts == SelectSeq([i \in 1..Len(bytes) |-> i], LAMBDA i : ~second(i))
      char(i) ==
        IF bytes[i] < 128 THEN bytes[i]
        ELSE IF IsLead2(bytes[i]) /\ i < Len(bytes) /\ IsContinuation(bytes[i + 1])
        THEN (bytes[i] - 192) * 64 + (bytes[i + 1] - 128)
        ELSE ReplacementChar
  IN [j \in 1..Len(starts) |-> char(starts[j])]

Last(seq) == seq[Len(seq)]

\* Buffer.concat(list)
RECURSIVE Concat(_)
Concat(list) == IF list = <<>> THEN <<>> ELSE Head(list) \o Concat(Tail(list))

\* String.prototype.toLowerCase on the ASCII range
ToLowerCase(str) ==
  [i \in 1..Len(str) |-> IF str[i] >= 65 /\ str[i] <= 90 THEN str[i] + 32 ELSE str[i]]

(* ------------------------------------------------------------------ *)
(* gzip: two magic bytes, the stored payload, one trailing check byte  *)
(* ------------------------------------------------------------------ *)
GzipMagic1 == 31
GzipMagic2 == 139

RECURSIVE ByteSum(_)
ByteSum(bytes) ==
  IF bytes = <<>> THEN 0
  ELSE IF Len(bytes) = 1 THEN bytes[1] % 256
  ELSE (ByteSum(SubSeq(bytes, 1, Len(bytes) \div 2))
        + ByteSum(SubSeq(bytes, Len(bytes) \div 2 + 1, Len(bytes)))) % 256

Gzip(payload) == <<GzipMagic1, GzipMagic2>> \o payload \o <<ByteSum(payload)>>

\* zlib.gunzipSync(buffer): the payload, or a thrown error
GunzipSync(buffer) ==
  LET n == Len(buffer) IN
  IF n >= 3 /\ buffer[1] = GzipMagic1 /\ buffer[2] = GzipMagic2
     /\ buffer[n] = ByteSum(SubSeq(buffer, 3, n - 1))
  THEN [threw |-> FALSE, out |-> SubSeq(buffer, 3, n - 1)]
  ELSE [threw |-> TRUE, out |-> <<>>]

(* ------------------------------------------------------------------ *)
(* JSON.parse / JSON.stringify                                         *)
(* The grammar covered: null, true, false, integers, strings without   *)
(* escapes, objects; no white space outside strings.  The response and *)
(* request texts of this model stay inside that grammar.               *)
(* ------------------------------------------------------------------ *)
ParseFail == [ok |-> FALSE, val |-> JNull, pos |-> 0]
ParseOk(v, p) == [ok |-> TRUE, val |-> v, pos |-> p]

CharAt(text, i) == IF i >= 1 /\ i <= Len(text) THEN text[i] ELSE -1
IsDigit(c) == c >= 48 /\ c <= 57
MatchAt(text, i, lit) ==
  i + Len(lit) - 1 <= Len(text) /\ SubSeq(text, i, i + Len(lit) - 1) = lit

\* first index at or after i that holds no digit
RECURSIVE DigitsEnd(_, _)
DigitsEnd(text, i) == IF IsDigit(CharAt(text, i)) THEN DigitsEnd(text, i + 1) ELSE i

\* value of the digits text[from..to]
RECURSIVE DigitsValue(_, _, _)
DigitsValue(text, from, to) ==
  IF to < from THEN 0
  ELSE DigitsValue(text, from, to - 1) * 10 + (text[to] - 48)

ParseNumber(text, i) ==
  LET neg == CharAt(text, i) = 45
      from == IF neg THEN i + 1 ELSE i
      to == DigitsEnd(text, from)
  IN IF to = from THEN ParseFail
     ELSE IF text[from] = 48 /\ to > from + 1 THEN ParseFail
     ELSE ParseOk(JNum((IF neg THEN -1 ELSE 1) * DigitsValue(text, from, to - 1)), to)

\* index of the quote closing the string whose first character is at i, or 0
RECURSIVE StringEnd(_, _)
StringEnd(text, i) ==
  LET c == CharAt(text, i) IN
  IF c = 34 THEN i
  ELSE IF c < 32 \/ c = 92 THEN 0
  ELSE StringEnd(text, i + 1)

ParseString(text, i) ==
  IF CharAt(text, i) # 34 THEN ParseFail
  ELSE LET e == StringEnd(text, i + 1) IN
       IF e = 0 THEN ParseFail
       ELSE ParseOk(JStr(SubSeq(text, i + 1, e - 1)), e + 1)

RECURSIVE ParseValue(_, _)
RECURSIVE ParseMembers(_, _, _)
ParseMembers(text, i, acc) ==
  LET key == ParseString(text, i) IN
  IF ~key.ok \/ CharAt(text, key.pos) # 58 THEN ParseFail
  ELSE LET v == ParseValue(text, key.pos + 1) IN
       IF ~v.ok THEN ParseFail
       ELSE LET acc2 == Append(acc, [k |-> key.val.s, v |-> v.val])
                c == CharAt(text, v.pos)
            IN IF c = 125 THEN ParseOk(JObj(acc2), v.pos + 1)
               ELSE IF c = 44 THEN ParseMembers(text, v.pos + 1, acc2)
               ELSE ParseFail

ParseValue(text, i) ==
  LET c == CharAt(text, i) IN
  IF MatchAt(text, i, StrNull) THEN ParseOk(JNull, i + 4)
  ELSE IF MatchAt(text, i, StrTrue) THEN ParseOk(JTrue, i + 4)
  ELSE IF MatchAt(text, i, StrFalse) THEN ParseOk(JFalse, i + 5)
  ELSE IF c = 34 THEN ParseString(text, i)
  ELSE IF c = 45 \/ IsDigit(c) THEN ParseNumber(text, i)
  ELSE IF c = 123 THEN
         (IF CharAt(text, i + 1) = 125 THEN ParseOk(JObj(<<>>), i + 2)
          ELSE ParseMembers(text, i + 1, <<>>))
  ELSE ParseFail

\* JSON.parse(text): threw is TRUE for a SyntaxError
JsonParse(text) ==
  LET r == ParseValue(text, 1) IN
  IF r.ok /\ r.pos = Len(text) + 1 THEN [threw |-> FALSE, val |-> r.val]
  ELSE [threw |-> TRUE, val |-> JUndef]

RECURSIVE NatToStr(_)
NatToStr(k) ==
  IF k < 10 THEN <<48 + k>> ELSE NatToStr(k \div 10) \o <<48 + (k % 10)>>

RECURSIVE JsonStringify(_)
RECURSIVE StringifyMembers(_, _, _)
\* members with an undefined value are left out
StringifyMembers(members, i, first) ==
  IF i > Len(members) THEN <<>>
  ELSE IF members[i].v.t = "undefined" THEN StringifyMembers(members, i + 1, first)
  ELSE (IF first THEN <<>> ELSE <<44>>)
       \o <<34>> \o members[i].k \o <<34, 58>> \o JsonStringify(members[i].v)
       \o StringifyMembers(members, i + 1, FALSE)

\* JSON.stringify(v) without indentation
JsonStringify(v) ==
  CASE v.t = "null" -> StrNull
    [] v.t = "bool" -> (IF v.n = 1 THEN StrTrue ELSE StrFalse)
    [] v.t = "num" -> (IF v.n < 0 THEN <<45>> \o NatToStr(-v.n) ELSE NatToStr(v.n))
    [] v.t = "str" -> <<34>> \o v.s \o <<34>>
    [] v.t = "obj" -> <<123>> \o StringifyMembers(v.o, 1, TRUE) \o <<125>>
    [] OTHER -> <<>>

(* ------------------------------------------------------------------ *)
(* handleResponse                                                      *)
(* A header value is absent, a string, a list of strings or a number.  *)
(* ------------------------------------------------------------------ *)
HdrAbsent == [k |-> "absent", s |-> <<>>]
HdrStr(str) == [k |-> "str", s |-> str]
HdrList(str) == [k |-> "list", s |-> str]
HdrNum == [k |-> "num", s |-> <<>>]

\* headers["content-encoding"]?.toLowerCase(): undefined for a missing
\* header, a TypeError for a value that has no toLowerCase method
ContentEncoding(headers) ==
  LET h == headers.ce IN
  CASE h.k = "absent" -> [threw |-> FALSE, val |-> HdrAbsent]
    [] h.k = "str" -> [threw |-> FALSE, val |-> HdrStr(ToLowerCase(h.s))]
    [] OTHER -> [threw |-> TRUE, val |-> HdrAbsent]

\* the buffer to decode and whether the decompression warning was printed
DecompressNoFallback(buffer, contentEncoding) ==
  IF contentEncoding = HdrStr(StrGzip)
  THEN [buf |-> GunzipSync(buffer).out, warn |-> GunzipSync(buffer).threw]
  ELSE [buf |-> buffer, warn |-> FALSE]

\* gunzip tried whatever the header says
DecompressAnyEncoding(buffer, contentEncoding) ==
  LET g == GunzipSync(buffer) IN
  IF g.threw THEN [buf |-> buffer, warn |-> contentEncoding = HdrStr(StrGzip)]
  ELSE [buf |-> g.out, warn |-> FALSE]

Decompress(buffer, contentEncoding) ==
  IF contentEncoding = HdrStr(StrGzip)
  THEN LET g == GunzipSync(buffer) IN
       IF g.threw THEN [buf |-> buffer, warn |-> TRUE]
       ELSE [buf |-> g.out, warn |-> FALSE]
  ELSE [buf |-> buffer, warn |-> FALSE]

\* the inner try/catch around JSON.parse
ParseText(responseText) ==
  LET p == JsonParse(responseText) IN
  IF p.threw THEN [text |-> responseText, json |-> JNull]
  ELSE [text |-> responseText, json |-> p.val]

ErrorResult == [text |-> StrErrorProcessing, json |-> JNull]

handleResponseNoCatch(buffer, headers) ==
  LET ce == ContentEncoding(headers) IN
  IF ce.threw THEN [threw |-> TRUE, warn |-> FALSE, res |-> ErrorResult]
  ELSE LET d == Decompress(buffer, ce.val) IN
       [threw |-> FALSE, warn |-> d.warn, res |-> ParseText(Utf8Decode(d.buf))]

\* res is the returned {text, json}; threw tells whether an exception left
\* the function; warn whether the decompression warning was printed
handleResponse(buffer, headers) ==
  LET ce == ContentEncoding(headers) IN
  IF ce.threw THEN [threw |-> FALSE, warn |-> FALSE, res |-> ErrorResult]
  ELSE LET d == Decompress(buffer, ce.val) IN
       [threw |-> FALSE, warn |-> d.warn, res |-> ParseText(Utf8Decode(d.buf))]

(* ------------------------------------------------------------------ *)
(* Chunks handed to res.write / res.end                                *)
(* kind: "none" (no argument), "buf" (Buffer, data are bytes),         *)
(* "str" (string, data are code points, enc the encoding argument or   *)
(* "none"), "fn" (a callback passed as first argument of end).         *)
(* ------------------------------------------------------------------ *)
NoChunk == [kind |-> "none", data |-> <<>>, enc |-> "none"]
BufChunk(bytes) == [kind |-> "buf", data |-> bytes, enc |-> "none"]
StrChunk(str, enc) == [kind |-> "str", data |-> str, enc |-> enc]
FnChunk == [kind |-> "fn", data |-> <<>>, enc |-> "none"]

\* if (chunk)
ChunkTruthy(c) ==
  CASE c.kind = "none" -> FALSE
    [] c.kind = "str" -> c.data # <<>>
    [] OTHER -> TRUE

\* Buffer.isBuffer(chunk) ? chunk : Buffer.from(chunk)
ToBuffer(c) ==
  CASE c.kind = "buf" -> [threw |-> FALSE, buf |-> c.data]
    [] c.kind = "str" -> [threw |-> FALSE, buf |-> Utf8Encode(c.data)]
    [] OTHER -> [threw |-> TRUE, buf |-> <<>>]

\* the body bytes the original write / end hands to the stream for a chunk
WireBytes(c) ==
  CASE c.kind = "buf" -> c.data
    [] c.kind = "str" -> (IF c.enc = "latin1" THEN Latin1Encode(c.data)
                          ELSE Utf8Encode(c.data))
    [] OTHER -> <<>>

(* ------------------------------------------------------------------ *)
(* State                                                               *)
(* ------------------------------------------------------------------ *)
Requests == {"A", "B"}

MaxWrites == 1
MaxClock == 1

StatusOk == 200
StatusBadRequest == 400
StatusProxyError == 500
ProxyErrorCode == -32603
ExitFailure == 1
DefaultPort == 3000

VARIABLES
  proc,         \* the process: start-up position, TARGET_URL, log directory, port, exit code
  pc,           \* per request: idle, rejected, forwarding, streaming, writing, ended, threw, stalled
  req,          \* per request: the incoming request (method, path, headers, parsed body)
  requestBody,  \* per request: the closure's requestBody
  requestTime,  \* per request: the closure's requestStartTime, in ms
  chunks,       \* per chunks array: the captured buffers
  received,     \* per request: the calls made to the intercepted write / end
  forwarded,    \* per request: the calls made to originalWrite / originalEnd
  returned,     \* per request: per write, what the original and the override returned
  pending,      \* per request: the locals of an end override that is at its file write
  statusCode,   \* per request: res.statusCode
  resHeaders,   \* per request: res.getHeaders()
  headersSent,  \* per request: res.headersSent
  entries,      \* per request: the log entries its end override built
  files,        \* the log directory: file name -> content
  console,      \* the console blocks printed, in order
  errors,       \* per request: calls of the proxy error hook
  now           \* the wall clock, in ms

vars == <<proc, pc, req, requestBody, requestTime, chunks, received, forwarded,
          returned, pending, statusCode, resHeaders, headersSent, entries, files,
          console, errors, now>>

\* everything but the process record
reqVars == <<pc, req, requestBody, requestTime, chunks, received, forwarded,
             returned, pending, statusCode, resHeaders, headersSent, entries,
             files, console, errors, now>>

NoRequest == [ok |-> FALSE, method |-> "", path |-> "", hdr |-> "", body |-> JUndef]
NoHeaders == [ce |-> HdrAbsent, ct |-> ""]

\* createLogFilename(): the timestamp read from the clock and the first
\* eight characters of a random uuid
createLogFilename(timestamp, uniqueId) == [ts |-> timestamp, id |-> uniqueId]

NoPending == [file |-> createLogFilename(0, ""), c |-> NoChunk]

\* no request handled yet
InitRequests ==
  /\ pc = [r \in Requests |-> "idle"]
  /\ req = [r \in Requests |-> NoRequest]
  /\ requestBody = [r \in Requests |-> JUndef]
  /\ requestTime = [r \in Requests |-> 0]
  /\ chunks = [r \in Requests |-> <<>>]
  /\ received = [r \in Requests |-> <<>>]
  /\ forwarded = [r \in Requests |-> <<>>]
  /\ returned = [r \in Requests |-> <<>>]
  /\ pending = [r \in Requests |-> NoPending]
  /\ statusCode = [r \in Requests |-> StatusOk]
  /\ resHeaders = [r \in Requests |-> NoHeaders]
  /\ headersSent = [r \in Requests |-> FALSE]
  /\ entries = [r \in Requests |-> <<>>]
  /\ files = <<>>
  /\ console = <<>>
  /\ errors = [r \in Requests |-> 0]
  /\ now = 0

\* the server is up: TARGET_URL was set, the log directory exists, the
\* default port is bound
Init ==
  /\ proc = [boot |-> "listening", target |-> TRUE, logDir |-> TRUE,
             created |-> FALSE, port |-> DefaultPort, exitCode |-> 0]
  /\ InitRequests

\* the process starts: TARGET_URL set or not, the log directory there or not
InitBoot ==
  /\ proc \in {[boot |-> "start", target |-> t, logDir |-> d, created |-> FALSE,
                port |-> 0, exitCode |-> 0] : t \in BOOLEAN, d \in BOOLEAN}
  /\ InitRequests

(* ------------------------------------------------------------------ *)
(* Start-up (module level code)                                        *)
(* ------------------------------------------------------------------ *)
\* replaces the exit by a mere report of the missing variable
CheckTargetUrlNoExit ==
  /\ proc.boot = "start"
  /\ proc' = [proc EXCEPT !.boot = "checked"]
  /\ UNCHANGED reqVars

\* lines 14-18: without TARGET_URL the process exits with status 1
CheckTargetUrl ==
  /\ proc.boot = "start"
  /\ proc' = IF proc.target
             THEN [proc EXCEPT !.boot = "checked"]
             ELSE [proc EXCEPT !.boot = "exited", !.exitCode = ExitFailure]
  /\ UNCHANGED reqVars

\* lines 21-24: the log directory is created unless it exists
EnsureLogDir ==
  /\ proc.boot = "checked"
  /\ proc' = IF proc.logDir
             THEN [proc EXCEPT !.boot = "ready"]
             ELSE [proc EXCEPT !.boot = "ready", !.logDir = TRUE, !.created = TRUE]
  /\ UNCHANGED reqVars

\* lines 178-183: PORT = process.env.PROXY_PORT || 3000; envPort is 0 when
\* PROXY_PORT is not set
Listen(envPort) ==
  /\ proc.boot = "ready"
  /\ proc' = [proc EXCEPT !.boot = "listening",
                          !.port = IF envPort = 0 THEN DefaultPort ELSE envPort]
  /\ UNCHANGED reqVars

\* JavaScript runs one callback to completion: no callback starts while the
\* end override of some request sits in its synchronous file write
NoHandlerRunning == \A q \in Requests : pc[q] # "writing"

\* const chunks: Buffer[] = [] -- the array the closure of request r appends to
ChunksRefShared(r) == "A"

ChunksRef(r) == r

\* chunks.push(buffer)
PushChunkFront(list, buffer) == <<buffer>> \o list

PushChunk(list, buffer) == Append(list, buffer)

\* fs.writeFileSync(name, content): creates the file or replaces its content
WriteFile(fs, name, content) ==
  [n \in (DOMAIN fs) \cup {name} |-> IF n = name THEN content ELSE fs[n]]

(* ------------------------------------------------------------------ *)
(* Request arrival: express.json() and the logging middleware          *)
(* ------------------------------------------------------------------ *)
\* express.json() rejects a malformed body with next(err): the middlewares
\* after it are skipped and Express' default error handler answers 400 on
\* the response as it is.  Otherwise the logging middleware records the
\* start time and the parsed body, wraps write and end, and calls next().
Arrive(r, inc) ==
  /\ proc.boot = "listening"
  /\ NoHandlerRunning
  /\ pc[r] = "idle"
  /\ req' = [req EXCEPT ![r] = inc]
  /\ IF inc.ok
     THEN /\ pc' = [pc EXCEPT ![r] = "forwarding"]
          /\ requestTime' = [requestTime EXCEPT ![r] = now]
          /\ requestBody' = [requestBody EXCEPT ![r] = inc.body]
          /\ UNCHANGED <<statusCode, headersSent>>
     ELSE /\ pc' = [pc EXCEPT ![r] = "rejected"]
          /\ statusCode' = [statusCode EXCEPT ![r] = StatusBadRequest]
          /\ headersSent' = [headersSent EXCEPT ![r] = TRUE]
          /\ UNCHANGED <<requestTime, requestBody>>
  /\ UNCHANGED <<proc, chunks, received, forwarded, returned, pending, resHeaders,
                 entries, files, console, errors, now>>

\* The forwarder received the upstream's status line and headers and copies
\* them onto the response before it pipes the body through write / end.
Respond(r, status, encoding) ==
  /\ NoHandlerRunning
  /\ pc[r] = "forwarding"
  /\ pc' = [pc EXCEPT ![r] = "streaming"]
  /\ statusCode' = [statusCode EXCEPT ![r] = status]
  /\ resHeaders' = [resHeaders EXCEPT ![r].ce = encoding]
  /\ UNCHANGED <<proc, req, requestBody, requestTime, chunks, received, forwarded,
                 returned, pending, headersSent, entries, files, console, errors, now>>

(* ------------------------------------------------------------------ *)
(* The intercepted res.write                                           *)
(* ------------------------------------------------------------------ *)
WriteCall(c) == [fn |-> "write", c |-> c]
EndCall(c) == [fn |-> "end", c |-> c]

\* return originalWrite.apply(this, arguments): orig is what the original
\* returned, out what the override returns
WriteReturn(orig) == [orig |-> orig, out |-> orig]

\* the body of the override for response r and chunk c, when the original
\* write answers ret (FALSE: the stream asks the caller to wait for drain)
Write(r, c, ret) ==
  \E conv \in {ToBuffer(c)} :
  /\ NoHandlerRunning
  /\ pc[r] = "streaming"
  /\ Len(received[r]) < MaxWrites
  /\ received' = [received EXCEPT ![r] = Append(@, WriteCall(c))]
  /\ IF ChunkTruthy(c) /\ conv.threw
     THEN /\ pc' = [pc EXCEPT ![r] = "threw"]
          /\ UNCHANGED <<chunks, forwarded, returned, headersSent>>
     ELSE /\ chunks' = IF ChunkTruthy(c)
                       THEN [chunks EXCEPT ![ChunksRef(r)] = PushChunk(@, conv.buf)]
                       ELSE chunks
          /\ forwarded' = [forwarded EXCEPT ![r] = Append(@, WriteCall(c))]
          /\ returned' = [returned EXCEPT ![r] = Append(@, WriteReturn(ret))]
          /\ headersSent' = [headersSent EXCEPT ![r] = TRUE]
          /\ UNCHANGED pc
  /\ UNCHANGED <<proc, req, requestBody, requestTime, pending, statusCode, resHeaders,
                 entries, files, console, errors, now>>

(* ------------------------------------------------------------------ *)
(* The intercepted res.end                                             *)
(* ------------------------------------------------------------------ *)
\* processedResponse.json || processedResponse.text, with the text alone
EntryBodyTextOnly(processed) == JStr(processed.text)

\* processedResponse.json || processedResponse.text
EntryBody(processed) == JsOr(processed.json, JStr(processed.text))

\* the duration of the entry: the clock read again minus the start time
Duration(clockAtDuration, start) == clockAtDuration - start

\* the log entry of lines 65-82; buffer and owner are kept beside it to
\* tell which bytes and which closure it was built from
LogEntry(r, buffer, processed, responseTime, clockAtDuration, status, headers) ==
  [owner |-> r,
   buffer |-> buffer,
   processed |-> processed,
   requestTime |-> requestTime[r],
   responseTime |-> responseTime,
   duration |-> Duration(clockAtDuration, requestTime[r]),
   method |-> req[r].method,
   path |-> req[r].path,
   reqHeaders |-> req[r].hdr,
   reqBody |-> requestBody[r],
   statusCode |-> status,
   headers |-> headers,
   body |-> EntryBody(processed)]

\* the console block of lines 91-110
ConsoleBlock(r, processed, logFilename, status) ==
  [owner |-> r,
   requestTime |-> requestTime[r],
   method |-> req[r].method,
   path |-> req[r].path,
   rpcMethod |-> IF Truthy(requestBody[r]) /\ Truthy(GetProp(requestBody[r], StrMethod))
                 THEN GetProp(requestBody[r], StrMethod) ELSE JUndef,
   statusCode |-> status,
   asJson |-> Truthy(processed.json),
   output |-> IF Truthy(processed.json) THEN processed.json ELSE JStr(processed.text),
   file |-> logFilename]

\* Lines 54-85 of the override for response r called with chunk c, when the
\* response has the given status code and headers: the chunk is captured,
\* the entry built and the file name made; the override is then at its
\* fs.writeFileSync call.  uniqueId is the uuid prefix drawn, d1 is
\* the time that passes between reading the response time and computing the
\* duration, d2 the time from there to the reading in createLogFilename.
EndBody(r, c, status, headers, uniqueId, d1, d2) ==
  \* each value is computed once and bound, in the order of the code
  \E conv \in {ToBuffer(c)} :
  \E captured \in {IF ChunkTruthy(c) /\ ~conv.threw
                   THEN [chunks EXCEPT ![ChunksRef(r)] = PushChunk(@, conv.buf)]
                   ELSE chunks} :
  \E responseBuffer \in {Concat(captured[ChunksRef(r)])} :
  \E responseTime \in {now} :
  \E hr \in {handleResponse(responseBuffer, headers)} :
  \E logEntry \in {LogEntry(r, responseBuffer, hr.res, responseTime, now + d1,
                            status, headers)} :
  \E logFilename \in {createLogFilename(now + d1 + d2, uniqueId)} :
  /\ now + d1 + d2 <= MaxClock
  /\ chunks' = captured
  /\ received' = [received EXCEPT ![r] = Append(@, EndCall(c))]
  /\ IF (ChunkTruthy(c) /\ conv.threw) \/ hr.threw
     THEN \* Buffer.from or handleResponse throws
          /\ pc' = [pc EXCEPT ![r] = "threw"]
          /\ UNCHANGED <<pending, entries, now>>
     ELSE /\ entries' = [entries EXCEPT ![r] = Append(@, logEntry)]
          /\ pending' = [pending EXCEPT ![r] = [file |-> logFilename, c |-> c]]
          /\ pc' = [pc EXCEPT ![r] = "writing"]
          /\ now' = now + d1 + d2
  /\ UNCHANGED <<forwarded, returned, headersSent, files, console>>

\* res.end called by the handler that streams the response
End(r, c, uniqueId, d1, d2) ==
  /\ NoHandlerRunning
  /\ pc[r] = "streaming"
  /\ EndBody(r, c, statusCode[r], resHeaders[r], uniqueId, d1, d2)
  /\ UNCHANGED <<proc, req, requestBody, requestTime, statusCode, resHeaders, errors>>

\* the override with the file write moved behind the console block and the
\* original end: the block is printed and the response ended whether or not
\* the write succeeds
EndFinishWriteLast(r, fsOk) ==
  LET logEntry == entries[r][Len(entries[r])] IN
  /\ pc[r] = "writing"
  /\ pending' = [pending EXCEPT ![r] = NoPending]
  /\ console' = Append(console, ConsoleBlock(r, logEntry.processed,
                                             pending[r].file, logEntry.statusCode))
  /\ forwarded' = [forwarded EXCEPT ![r] = Append(@, EndCall(pending[r].c))]
  /\ headersSent' = [headersSent EXCEPT ![r] = TRUE]
  /\ pc' = [pc EXCEPT ![r] = "ended"]
  /\ files' = IF fsOk THEN WriteFile(files, pending[r].file, logEntry) ELSE files
  /\ UNCHANGED <<proc, req, requestBody, requestTime, chunks, received, returned,
                 statusCode, resHeaders, entries, errors, now>>

\* Lines 88-114 of the override: fs.writeFileSync returns or throws (fsOk),
\* then the console block is printed and the original end called.
EndFinish(r, fsOk) ==
  LET logEntry == entries[r][Len(entries[r])] IN
  /\ pc[r] = "writing"
  /\ pending' = [pending EXCEPT ![r] = NoPending]
  /\ IF ~fsOk
     THEN \* fs.writeFileSync throws
          /\ pc' = [pc EXCEPT ![r] = "threw"]
          /\ UNCHANGED <<forwarded, headersSent, files, console>>
     ELSE /\ files' = WriteFile(files, pending[r].file, logEntry)
          /\ console' = Append(console, ConsoleBlock(r, logEntry.processed,
                                                     pending[r].file, logEntry.statusCode))
          /\ forwarded' = [forwarded EXCEPT ![r] = Append(@, EndCall(pending[r].c))]
          /\ headersSent' = [headersSent EXCEPT ![r] = TRUE]
          /\ pc' = [pc EXCEPT ![r] = "ended"]
  /\ UNCHANGED <<proc, req, requestBody, requestTime, chunks, received, returned,
                 statusCode, resHeaders, entries, errors, now>>

(* ------------------------------------------------------------------ *)
(* The proxy error hook                                                *)
(* ------------------------------------------------------------------ *)
\* id: req.body?.id || null
ErrorId(body) == JsOr(GetProp(body, StrId), JNull)

\* the JSON-RPC error object of lines 164-168
ErrorEnvelope(body) ==
  JObj(<<[k |-> StrJsonrpc, v |-> JStr(StrTwoZero)],
         [k |-> StrError,
          v |-> JObj(<<[k |-> StrCode, v |-> JNum(ProxyErrorCode)],
                       [k |-> StrMessage, v |-> JStr(StrProxyError)]>>)],
         [k |-> StrId, v |-> ErrorId(body)]>>)

ContentTypeJson == "application/json"

\* onError: forwarding of request r failed.  With no headers sent yet it
\* writes the head and ends the response with the envelope, through the
\* intercepted end; otherwise it only reports the error.
ProxyError(r, uniqueId, d1, d2) ==
  /\ NoHandlerRunning
  /\ pc[r] \in {"forwarding", "streaming"}
  /\ errors' = [errors EXCEPT ![r] = @ + 1]
  /\ IF ~headersSent[r]
     THEN /\ statusCode' = [statusCode EXCEPT ![r] = StatusProxyError]
          /\ resHeaders' = [resHeaders EXCEPT ![r].ct = ContentTypeJson]
          /\ \E c \in {StrChunk(JsonStringify(ErrorEnvelope(req[r].body)), "none")} :
               EndBody(r, c, StatusProxyError,
                       [resHeaders[r] EXCEPT !.ct = ContentTypeJson],
                       uniqueId, d1, d2)
     ELSE /\ pc' = [pc EXCEPT ![r] = "stalled"]
          /\ UNCHANGED <<statusCode, resHeaders, chunks, received, forwarded, returned,
                         pending, headersSent, entries, files, console, now>>
  /\ UNCHANGED <<proc, req, requestBody, requestTime>>

\* a millisecond passes
Tick ==
  /\ now < MaxClock
  /\ now' = now + 1
  /\ UNCHANGED <<proc, pc, req, requestBody, requestTime, chunks, received, forwarded,
                 returned, pending, statusCode, resHeaders, headersSent, entries,
                 files, console, errors>>

(* ------------------------------------------------------------------ *)
(* Inputs                                                              *)
(* ------------------------------------------------------------------ *)
\* POST / {"id":7,"method":"eth_call"}
ReqCall ==
  [ok |-> TRUE, method |-> "POST", path |-> "/", hdr |-> "application/json",
   body |-> JObj(<<[k |-> StrId, v |-> JNum(7)], [k |-> StrMethod, v |-> JStr(StrEthCall)]>>)]
\* POST /rpc {"id":0}
ReqIdZero ==
  [ok |-> TRUE, method |-> "POST", path |-> "/rpc", hdr |-> "application/json",
   body |-> JObj(<<[k |-> StrId, v |-> JNum(0)]>>)]
\* POST / {"id":""}
ReqIdEmpty ==
  [ok |-> TRUE, method |-> "POST", path |-> "/", hdr |-> "application/json",
   body |-> JObj(<<[k |-> StrId, v |-> JStr(<<>>)]>>)]
\* GET /health, no body: express.json() leaves req.body = {}
ReqGet ==
  [ok |-> TRUE, method |-> "GET", path |-> "/health", hdr |-> "", body |-> JObj(<<>>)]
\* POST / with a body that is no JSON
ReqMalformed ==
  [ok |-> FALSE, method |-> "POST", path |-> "/", hdr |-> "application/json",
   body |-> JUndef]

Incoming == {ReqCall, ReqIdZero, ReqIdEmpty, ReqGet, ReqMalformed}
IncomingPair == {ReqCall, ReqIdZero}

UuidPrefixes == {"0a1b2c3d", "9f8e7d6c"}

Encodings ==
  {HdrAbsent, HdrStr(StrGzip), HdrStr(StrGzipUpper), HdrStr(StrBr),
   HdrList(StrGzip), HdrNum}

BytesZero == <<48>>                          \* 0
BytesHi == <<104, 105>>                      \* hi
BytesEmptyString == <<34, 34>>               \* ""
BytesObject == <<123, 34, 97, 34, 58, 49, 125>>  \* {"a":1}
BytesBadGzip == <<GzipMagic1, GzipMagic2, 48>>
StrPound == <<163>>                          \* U+00A3

\* the chunks of the two-request specification
PlainChunks == {BufChunk(BytesZero), BufChunk(BytesHi)}

\* the chunks of the decoding specification
BufferChunks ==
  {BufChunk(b) : b \in {<<>>, BytesZero, BytesHi, BytesEmptyString, BytesObject,
                        Utf8Encode(StrNull), Utf8Encode(StrFalse),
                        SubSeq(StrNull, 1, 2), SubSeq(StrNull, 3, 4),
                        Gzip(BytesZero), Gzip(Utf8Encode(StrNull)), BytesBadGzip}}
StringChunks ==
  {StrChunk(StrPound, e) : e \in {"none", "utf8", "latin1"}}
  \cup {StrChunk(<<>>, "none"), StrChunk(BytesZero, "none")}
AllChunks == BufferChunks \cup StringChunks

(* ------------------------------------------------------------------ *)
(* Specifications                                                      *)
(* ------------------------------------------------------------------ *)
DefaultUuid == "0a1b2c3d"

\* two requests in flight: every interleaving of their arrivals, writes,
\* ends and failures, every uuid drawn, the clock ticking in between
Next ==
  \/ \E r \in Requests, inc \in IncomingPair : Arrive(r, inc)
  \/ \E r \in Requests : Respond(r, StatusOk, HdrAbsent)
  \/ \E r \in Requests, c \in PlainChunks : Write(r, c, TRUE)
  \/ \E r \in Requests, u \in UuidPrefixes : End(r, NoChunk, u, 0, 0)
  \/ \E r \in Requests : EndFinish(r, TRUE)
  \/ \E r \in Requests, u \in UuidPrefixes : ProxyError(r, u, 0, 0)
  \/ Tick

Spec == Init /\ [][Next]_vars

\* one request: every request form, every outcome of the file write, every
\* reading of the clock inside the end override
NextOne ==
  \/ \E inc \in Incoming : Arrive("A", inc)
  \/ \E e \in {HdrAbsent, HdrStr(StrGzip)} : Respond("A", StatusOk, e)
  \/ \E c \in PlainChunks, ret \in BOOLEAN : Write("A", c, ret)
  \/ \E c \in PlainChunks \cup {NoChunk, FnChunk}, d1 \in 0..1, d2 \in 0..1 :
       End("A", c, DefaultUuid, d1, d2)
  \/ \E fsOk \in BOOLEAN : EndFinish("A", fsOk)
  \/ \E d1 \in 0..1, d2 \in 0..1 : ProxyError("A", DefaultUuid, d1, d2)
  \/ Tick

SpecOne == Init /\ [][NextOne]_vars

\* one request: every response encoding and every chunk form, to exercise
\* the capture and handleResponse
NextDecode ==
  \/ Arrive("A", ReqCall)
  \/ \E e \in Encodings : Respond("A", StatusOk, e)
  \/ \E c \in AllChunks : Write("A", c, TRUE)
  \/ \E c \in AllChunks \cup {NoChunk} : End("A", c, DefaultUuid, 0, 0)
  \/ EndFinish("A", TRUE)

SpecDecode == Init /\ [][NextDecode]_vars

\* the port PROXY_PORT names when it is set
AltPort == 8080

\* the process from its start: the module level code runs, then one request
\* is served
NextBoot ==
  \/ CheckTargetUrl
  \/ EnsureLogDir
  \/ \E envPort \in {0, AltPort} : Listen(envPort)
  \/ \E inc \in Incoming : Arrive("A", inc)
  \/ Respond("A", StatusOk, HdrAbsent)
  \/ \E c \in PlainChunks : Write("A", c, TRUE)
  \/ End("A", NoChunk, DefaultUuid, 0, 0)
  \/ EndFinish("A", TRUE)
  \/ ProxyError("A", DefaultUuid, 0, 0)

SpecBoot == InitBoot /\ [][NextBoot]_vars

\* one request whose logging never throws, under fairness: the upstream
\* answers, completes or fails, and a handler that can run does run
NextLive ==
  \/ \E inc \in Incoming : Arrive("A", inc)
  \/ \E e \in {HdrAbsent, HdrStr(StrGzip)} : Respond("A", StatusOk, e)
  \/ \E c \in PlainChunks : Write("A", c, TRUE)
  \/ \E c \in PlainChunks \cup {NoChunk} : End("A", c, DefaultUuid, 0, 0)
  \/ EndFinish("A", TRUE)
  \/ ProxyError("A", DefaultUuid, 0, 0)
  \/ Tick

SpecLive == Init /\ [][NextLive]_vars /\ WF_vars(NextLive)

(* ------------------------------------------------------------------ *)
(* Properties                                                          *)
(* ------------------------------------------------------------------ *)
\* the client saw the response of request r complete
Answered(r) == pc[r] \in {"ended", "rejected"}

FilesOf(r) == {n \in DOMAIN files : files[n].owner = r}
BlocksOf(r) == {i \in DOMAIN console : console[i].owner = r}

\* the body bytes the original write / end calls of a response handed on
RECURSIVE WireOf(_)
WireOf(calls) ==
  IF calls = <<>> THEN <<>> ELSE WireBytes(Head(calls).c) \o WireOf(Tail(calls))

\* the buffers the closure of a response captures for the calls it receives
RECURSIVE CaptureOf(_)
CaptureOf(calls) ==
  IF calls = <<>> THEN <<>>
  ELSE (IF ChunkTruthy(Head(calls).c) THEN ToBuffer(Head(calls).c).buf ELSE <<>>)
       \o CaptureOf(Tail(calls))

\* C1: every request the server answered has exactly one log entry, one log
\* file and one console block (checked under SpecOne; a request rejected by
\* the body parser is answered without any of them).
C1_OneLogPerAnsweredRequest ==
  \A r \in Requests :
    Answered(r) =>
      /\ Len(entries[r]) = 1
      /\ Cardinality(FilesOf(r)) = 1
      /\ Cardinality(BlocksOf(r)) = 1

\* C2: no exception escapes an intercepted write or end: the original is
\* always invoked, whatever step of the logging fails (checked under SpecOne).
C2_NoExceptionEscapes == \A r \in Requests : pc[r] # "threw"

\* C3: when end has built the log entry and forwarded the call, the buffer
\* the entry was built from equals the body bytes handed to the underlying
\* stream by the write calls and the end call (checked under SpecDecode).
C3_CaptureEqualsWire ==
  \A r \in Requests :
    pc[r] = "ended" =>
      \A i \in DOMAIN entries[r] : entries[r][i].buffer = WireOf(forwarded[r])

\* C4: every log entry, in memory and on file, holds the request snapshot of
\* the request whose closure built it and exactly the chunks written to that
\* request's own response, whatever the other request did in between.
OwnEntry(e) ==
  /\ e.reqBody = req[e.owner].body
  /\ e.method = req[e.owner].method
  /\ e.path = req[e.owner].path
  /\ e.reqHeaders = req[e.owner].hdr
  /\ e.buffer = CaptureOf(received[e.owner])

C4_NoCrossContamination ==
  /\ \A r \in Requests : \A i \in DOMAIN entries[r] :
       entries[r][i].owner = r /\ OwnEntry(entries[r][i])
  /\ \A n \in DOMAIN files : OwnEntry(files[n])

\* request B completed and logged its own chunks while request A, with a
\* different body and a different captured chunk, is still streaming
C4_Witness ==
  /\ pc["A"] = "streaming" /\ chunks["A"] # <<>>
  /\ pc["B"] = "ended" /\ Len(entries["B"]) = 1
  /\ entries["B"][1].buffer # <<>>
  /\ entries["B"][1].buffer # Concat(chunks["A"])
  /\ requestBody["A"] # requestBody["B"]

IsGzipHeader(h) == h.k = "str" /\ ToLowerCase(h.s) = StrGzip

\* C5: a response whose content-encoding is gzip in any letter case is
\* decoded without an exception; the text is the UTF-8 decoding of the
\* decompressed bytes when the buffer is valid gzip data and of the original
\* buffer when it is not (checked under SpecDecode).
C5_GzipDecoding ==
  \A r \in Requests :
    (IsGzipHeader(resHeaders[r].ce) /\ pc[r] \in {"ended", "threw"}) =>
      /\ pc[r] = "ended"
      /\ \A i \in DOMAIN entries[r] :
           LET e == entries[r][i]
               g == GunzipSync(e.buffer)
           IN e.processed.text =
                IF g.threw THEN Utf8Decode(e.buffer) ELSE Utf8Decode(g.out)

\* a response with content-encoding GZIP whose bytes are no gzip data was
\* logged with the text of the original bytes
C5_Witness ==
  /\ pc["A"] = "ended" /\ Len(entries["A"]) = 1
  /\ resHeaders["A"].ce = HdrStr(StrGzipUpper)
  /\ entries["A"][1].buffer = BytesBadGzip
  /\ entries["A"][1].processed.text = Utf8Decode(BytesBadGzip)

\* C6: for every decoded text that is valid JSON the json field is populated,
\* differs from the absence marker and equals the parsed value; for every
\* other text json is absent and text is the decoded body (checked under
\* SpecDecode; the document null parses to the absence marker itself).
AbsenceMarker == JNull

C6_JsonPopulated ==
  \A r \in Requests : \A i \in DOMAIN entries[r] :
    LET res == entries[r][i].processed
        p == JsonParse(res.text)
    IN res # ErrorResult =>
         IF p.threw THEN res.json = AbsenceMarker
         ELSE res.json # AbsenceMarker /\ res.json = p.val

\* C7: handleResponse never lets an exception out, whatever the buffer and
\* the content-encoding header are, and a header value without toLowerCase
\* (a list, a number) yields {text: "Error processing response", json: null}
\* (checked under SpecDecode).
C7_NeverThrows ==
  \A r \in Requests :
    pc[r] \in {"ended", "threw"} =>
      /\ pc[r] = "ended"
      /\ Len(entries[r]) = 1
      /\ resHeaders[r].ce.k \in {"list", "num"} =>
           entries[r][1].processed = ErrorResult

\* a response whose content-encoding is a list of strings was ended and
\* logged with the error result
C7_Witness ==
  /\ pc["A"] = "ended" /\ Len(entries["A"]) = 1
  /\ resHeaders["A"].ce = HdrList(StrGzip)
  /\ entries["A"][1].buffer # <<>>
  /\ entries["A"][1].processed = ErrorResult

\* C8: in every log entry the duration is the response time minus the
\* request time, and is not negative (checked under SpecOne).
C8_DurationIsDifference ==
  \A r \in Requests : \A i \in DOMAIN entries[r] :
    LET e == entries[r][i] IN
    /\ e.duration = e.responseTime - e.requestTime
    /\ e.duration >= 0

\* C9: the log file names given to distinct requests are distinct, so no
\* log file is replaced by a later request.
C9_DistinctLogFiles ==
  /\ \A i, j \in DOMAIN console : i # j => console[i].file # console[j].file
  /\ Cardinality(DOMAIN files) = Len(console)

\* C10: a response the error hook ended has status 500 and the error
\* envelope as body, with the id of the request body whenever that body has
\* an id and null otherwise; the hook writes nothing once headers were sent
\* (checked under SpecOne).
RequestId(body) ==
  IF GetProp(body, StrId).t = "undefined" THEN JNull ELSE GetProp(body, StrId)

EnvelopeWithId(id) ==
  JObj(<<[k |-> StrJsonrpc, v |-> JStr(StrTwoZero)],
         [k |-> StrError,
          v |-> JObj(<<[k |-> StrCode, v |-> JNum(-32603)],
                       [k |-> StrMessage, v |-> JStr(StrProxyError)]>>)],
         [k |-> StrId, v |-> id]>>)

C10_ErrorEnvelope ==
  \A r \in Requests :
    /\ (errors[r] > 0 /\ pc[r] = "ended") =>
         /\ statusCode[r] = 500
         /\ Last(forwarded[r]) =
              EndCall(StrChunk(JsonStringify(EnvelopeWithId(RequestId(req[r].body))), "none"))
    /\ pc[r] = "stalled" => \A i \in DOMAIN forwarded[r] : forwarded[r][i].fn = "write"

\* C11: when TARGET_URL is not set the process does nothing but exit with a
\* non-zero status: no port is bound, no log directory is created and no
\* request is handled (checked under SpecBoot).
C11_ExitsWithoutTarget ==
  ~proc.target =>
    /\ proc.boot \in {"start", "exited"}
    /\ proc.boot = "exited" => proc.exitCode # 0
    /\ proc.port = 0
    /\ ~proc.created
    /\ \A r \in Requests : pc[r] = "idle" /\ received[r] = <<>> /\ entries[r] = <<>>
    /\ files = <<>> /\ console = <<>>

\* the process started without TARGET_URL and without a log directory has
\* exited with status 1, and the directory is still missing
C11_Witness ==
  /\ ~proc.target /\ proc.boot = "exited" /\ proc.exitCode = 1
  /\ ~proc.logDir /\ proc.port = 0

\* C12: the interception is transparent.  A call of the intercepted write
\* reaches the original write with the same arguments and returns what the
\* original returned; a call of the intercepted end reaches the original end
\* with the same arguments; neither changes the status code or the headers
\* of the response (checked under SpecOne).
WriteIsTransparent(r) ==
  (received'[r] # received[r] /\ Last(received'[r]).fn = "write") =>
    /\ forwarded'[r] = Append(forwarded[r], Last(received'[r]))
    /\ Len(returned'[r]) = Len(returned[r]) + 1
    /\ Last(returned'[r]).out = Last(returned'[r]).orig

EndIsTransparent(r) ==
  /\ (received'[r] # received[r] /\ Last(received'[r]).fn = "end") =>
       pc'[r] = "writing" /\ pending'[r].c = Last(received'[r]).c
  /\ (pc[r] = "writing" /\ pc'[r] # "writing") =>
       forwarded'[r] = Append(forwarded[r], Last(received[r]))

InterceptionKeepsHead(r) ==
  ((received'[r] # received[r] \/ pc[r] = "writing") /\ errors'[r] = errors[r]) =>
    statusCode'[r] = statusCode[r] /\ resHeaders'[r] = resHeaders[r]

C12_Transparent ==
  [][\A r \in Requests :
       WriteIsTransparent(r) /\ EndIsTransparent(r) /\ InterceptionKeepsHead(r)]_vars

\* C13: the log entry of a request is built when its res.end is called and
\* not before: as long as a response has received write calls only there is
\* no entry, no log file and no console block of it; the entry built at end
\* holds the chunks of all the calls received, in the order of the calls
\* (checked under SpecDecode).
OnlyWritesReceived(r) == \A i \in DOMAIN received[r] : received[r][i].fn = "write"

C13_EntryOnlyAtEnd ==
  \A r \in Requests :
    /\ OnlyWritesReceived(r) =>
         entries[r] = <<>> /\ FilesOf(r) = {} /\ BlocksOf(r) = {}
    /\ Len(entries[r]) <= 1
    /\ \A i \in DOMAIN entries[r] : entries[r][i].buffer = CaptureOf(received[r])

\* a response written with "hi" and ended with "0" was logged with "hi0"
C13_Witness ==
  /\ pc["A"] = "ended"
  /\ received["A"] = <<WriteCall(BufChunk(BytesHi)), EndCall(BufChunk(BytesZero))>>
  /\ Len(entries["A"]) = 1
  /\ entries["A"][1].buffer = BytesHi \o BytesZero
  /\ FilesOf("A") # {} /\ BlocksOf("A") # {}

\* C14: the body stored in a log entry, and shown in its console block, is
\* the parsed JSON value whenever the decoded text is valid JSON, whatever
\* the value is (false, 0, null and "" included), and the decoded text only
\* when the text is not valid JSON (checked under SpecDecode).
PreferredBody(text) ==
  IF JsonParse(text).threw THEN JStr(text) ELSE JsonParse(text).val

C14_BodyIsParsedJson ==
  \A r \in Requests : \A i \in DOMAIN entries[r] :
    /\ entries[r][i].body = PreferredBody(entries[r][i].processed.text)
    /\ \A k \in BlocksOf(r) :
         console[k].output = PreferredBody(entries[r][i].processed.text)

\* C15: the log file write of one request does not block the others: while
\* the end override of request a is at its file write, a request b that is
\* being forwarded or streamed can take its next step (a response arriving,
\* a write, an end).
Progress(b) ==
  \/ Respond(b, StatusOk, HdrAbsent)
  \/ \E c \in PlainChunks : Write(b, c, TRUE)
  \/ \E u \in UuidPrefixes : End(b, NoChunk, u, 0, 0)

C15_FileWriteDoesNotBlock ==
  \A a, b \in Requests :
    (a # b /\ pc[a] = "writing" /\ pc[b] \in {"forwarding", "streaming"}) =>
      ENABLED Progress(b)

\* C16: inside res.end the log file is written before the console block is
\* printed and before the original end is called: at the step that prints
\* the console block of a request, and at the step that hands its end to the
\* original end, the log file named by the override exists and holds the
\* entry of that request (checked under SpecOne, where the file write may
\* fail).
EndForwarded(r) == \E i \in DOMAIN forwarded[r] : forwarded[r][i].fn = "end"

LogFileWritten(r) ==
  /\ pending[r].file \in DOMAIN files'
  /\ files'[pending[r].file] = Last(entries[r])
  /\ files'[pending[r].file].owner = r

C16_FileBeforeConsoleAndEnd ==
  [][\A r \in Requests :
       /\ (BlocksOf(r)' # BlocksOf(r)) => LogFileWritten(r)
       /\ (~EndForwarded(r) /\ EndForwarded(r)') => LogFileWritten(r)]_vars

\* the end of a response reached the client and its log file is there
C16_Witness ==
  /\ pc["A"] = "ended" /\ EndForwarded("A")
  /\ Len(entries["A"]) = 1
  /\ Cardinality(FilesOf("A")) = 1
  /\ \A n \in FilesOf("A") : files[n] = entries["A"][1]
  /\ Len(console) = 1

\* C17: when the content-encoding header of a response is absent or names
\* an encoding other than gzip, nothing is decompressed: the text of the
\* entry is the UTF-8 decoding of the captured buffer as it is, and json is
\* what parsing that text gives (checked under SpecDecode).
NotGzip(h) == h.k = "absent" \/ (h.k = "str" /\ ToLowerCase(h.s) # StrGzip)

C17_OtherEncodingsUntouched ==
  \A r \in Requests : \A i \in DOMAIN entries[r] :
    LET e == entries[r][i]
        p == JsonParse(Utf8Decode(e.buffer))
    IN NotGzip(e.headers.ce) =>
         /\ e.processed.text = Utf8Decode(e.buffer)
         /\ e.processed.json = IF p.threw THEN JNull ELSE p.val

\* a response with content-encoding br whose bytes happen to be gzip data
\* was logged with the text of those bytes, not of their decompression
C17_Witness ==
  /\ pc["A"] = "ended" /\ Len(entries["A"]) = 1
  /\ entries["A"][1].headers.ce = HdrStr(StrBr)
  /\ entries["A"][1].buffer = Gzip(BytesZero)
  /\ entries["A"][1].processed.text = Utf8Decode(Gzip(BytesZero))
  /\ entries["A"][1].processed.text # BytesZero
  /\ entries["A"][1].processed.json = JNull

\* C18: when forwarding fails before any header was sent, the error response
\* of the hook goes through the intercepted end like any other: the request
\* gets exactly one log entry, with status 500 and the error envelope handed
\* to end as body; and every log entry records the status code and the
\* headers the response has when end is called (checked under SpecOne).
HookEnded(r) == errors[r] > 0 /\ pc[r] \in {"writing", "ended", "threw"}

EnvelopeSent(r) == JsonParse(Utf8Decode(WireBytes(Last(received[r]).c)))

C18_ErrorResponseLogged ==
  \A r \in Requests :
    /\ HookEnded(r) =>
         /\ Last(received[r]).fn = "end"
         /\ pc[r] = "ended" => Last(forwarded[r]) = Last(received[r])
         /\ Len(entries[r]) = 1
         /\ entries[r][1].statusCode = 500
         /\ ~EnvelopeSent(r).threw
         /\ entries[r][1].body = EnvelopeSent(r).val
         /\ GetProp(entries[r][1].body, StrJsonrpc) = JStr(StrTwoZero)
    /\ \A i \in DOMAIN entries[r] :
         /\ entries[r][i].statusCode = statusCode[r]
         /\ entries[r][i].headers = resHeaders[r]

\* the upstream answered with content-encoding gzip and failed before any
\* byte was written: the request with id 7 was answered and logged with
\* status 500 and the envelope carrying id 7
C18_Witness ==
  /\ errors["A"] = 1 /\ pc["A"] = "ended"
  /\ req["A"] = ReqCall
  /\ Len(entries["A"]) = 1
  /\ entries["A"][1].statusCode = 500
  /\ entries["A"][1].headers = [ce |-> HdrStr(StrGzip), ct |-> ContentTypeJson]
  /\ GetProp(entries["A"][1].body, StrId) = JNum(7)
  /\ Cardinality(FilesOf("A")) = 1

\* C19: every request that entered the logging middleware eventually has its
\* response ended and its log entry emitted, given that the upstream
\* eventually completes or fails -- also when it fails after headers were
\* sent (checked under SpecLive, whose fairness makes the upstream complete
\* or fail).
Entered(r) == pc[r] \in {"forwarding", "streaming"}

Completed(r) ==
  pc[r] = "ended" /\ EndForwarded(r) /\ Len(entries[r]) = 1 /\ FilesOf(r) # {}

C19_EveryRequestCompletes ==
  \A r \in Requests : Entered(r) ~> Completed(r)

====
